---- MODULE Spec2Model ----
(***************************************************************************)
(* Model of the tomography helpers of ODL:                                 *)
(*   - odl/datasets/tomo.py        the walnut and lotus root data loaders  *)
(*   - odl/contrib/tomo/elekta.py  the Elekta Icon geometry, space and     *)
(*                                 reconstruction presets                  *)
(*   - odl/test/tomo/operators/ray_trafo_test.py  the RayTransform tests   *)
(*                                                                         *)
(* Lengths of the detector are fixed-point numbers in micrometres, so the  *)
(* decimal constants of the source (0.368, 287.04, 264.96 mm) are exact.   *)
(* A matrix is a sequence of rows, indexed from 1 (numpy index k is k+1).  *)
(***************************************************************************)
EXTENDS Integers, Sequences, FiniteSets, TLC

VARIABLES
    dct,        \* datasets: the raw matrix get_data() returned
    wdata,      \* datasets: the array walnut_data() returned last
    ldata,      \* datasets: the array lotus_root_data() returned last
    loader,     \* datasets: which loader ran last ("none" before any call)
    ecall,      \* elekta: function and arguments of the last call
    eret,       \* elekta: what that call returned or raised
    heap,       \* elekta: the array objects alive
    projector,  \* tests: the module-scoped projector fixture
    env,        \* tests: the installed backends and the ASTRA version
    buf,        \* tests: an element of projector.range reused as out=
    locals      \* tests: the local variables of the call or test run last

dataVars == <<dct, wdata, ldata, loader>>
elektaVars == <<ecall, eret, heap>>
testVars == <<projector, env, buf, locals>>
vars == <<dataVars, elektaVars, testVars>>

(***************************************************************************)
(* Bounds of the model.                                                    *)
(***************************************************************************)
MaxDim == 2         \* raw sinograms have 1..MaxDim rows and columns
MaxRaw == 2         \* raw sinogram entries are 1..MaxRaw (strictly positive)
MaxSad == 2         \* sad is -1..MaxSad or 780, sdd is -1..MaxSad+1 or 1000
MaxPierce == 1      \* piercing point coordinates are 0..MaxPierce or 390 pixels
MaxCells == 2       \* detector and volume shapes have 1..MaxCells cells per axis
MaxAngle == 2       \* angles are 0..MaxAngle
MaxProj == 1        \* projection data handed to an operator are 0..MaxProj
MaxVal == 1         \* volume samples are 0..MaxVal
MaxNoise == 3       \* np.random.rand gives 0/MaxNoise..(MaxNoise-1)/MaxNoise

(***************************************************************************)
(* Generic helpers.                                                        *)
(***************************************************************************)
RECURSIVE GCD(_, _)
GCD(a, b) == IF b = 0 THEN a ELSE GCD(b, a % b)

SetMax(S) == CHOOSE m \in S : \A x \in S : x <= m

Matrices(M, N, V) == [1..M -> [1..N -> V]]

Shape(a) == <<Len(a), Len(a[1])>>

(***************************************************************************)
(* odl/datasets/tomo.py                                                    *)
(***************************************************************************)

\* np.swapaxes(a, 0, 1)
swapaxes(a) == [i \in 1..Len(a[1]) |-> [j \in 1..Len(a) |-> a[j][i]]]

\* a[:, ::-1]: every row read backwards
RevAxis1(a) == [i \in 1..Len(a) |-> [j \in 1..Len(a[i]) |-> a[i][Len(a[i]) + 1 - j]]]

\* a[::-1, :]: the rows in reverse order
RevAxis0(a) == [i \in 1..Len(a) |-> a[Len(a) + 1 - i]]

\* np.max(a, axis=1): one maximum per row
MaxAxis1(a) == [i \in 1..Len(a) |-> SetMax({a[i][j] : j \in 1..Len(a[i])})]

\* np.max(a): the maximum of the whole array
MaxGlobal(a) == SetMax({a[i][j] : i \in 1..Len(a), j \in 1..Len(a[1])})

\* The quotient n / d of two positive numbers, as a fraction in lowest terms.
Quot(n, d) == [num |-> n \div GCD(n, d), den |-> d \div GCD(n, d)]

\* -np.log(q) of a positive fraction q.  The value -ln(num/den) = ln(den/num)
\* is kept exactly, as the fraction whose logarithm it is.
NegLog(q) == [ln |-> [num |-> q.den, den |-> q.num]]

\* Order and zero test of logarithm values: ln is strictly increasing and
\* ln(1) = 0.
LnLess(x, y) == x.ln.num * y.ln.den < y.ln.num * x.ln.den
LnIsZero(x) == x.ln.num = x.ln.den
LnNonNeg(x) == x.ln.num >= x.ln.den

\* Line 45: np.swapaxes(dct['sinogram1200'], 0, 1)[:, ::-1]
WalnutAxes(s) == RevAxis1(swapaxes(s))

\* A faulty variant of line 48: every row divided by the one global maximum.
WalnutGainGlobal(a) == [i \in 1..Len(a) |-> MaxGlobal(a)]

\* Line 48: np.max(data, axis=1)[:, None], the divisor of each row
WalnutGain(a) == MaxAxis1(a)

\* Line 48: -np.log(data / np.max(data, axis=1)[:, None])
WalnutNormalize(a) ==
    LET g == WalnutGain(a)
    IN  [i \in 1..Len(a) |-> [j \in 1..Len(a[i]) |-> NegLog(Quot(a[i][j], g[i]))]]

walnut_data(s) == WalnutNormalize(WalnutAxes(s))

\* A faulty variant of line 104: the second axis reversed, as in walnut_data.
LotusAxesWrongAxis(s) == RevAxis1(swapaxes(s))

\* Line 104: np.swapaxes(dct['sinogram'], 0, 1)[::-1, :]
LotusAxes(s) == RevAxis0(swapaxes(s))

lotus_root_data(s) == LotusAxes(s)

RawSinograms ==
    UNION {Matrices(M, N, 1..MaxRaw) : M \in 1..MaxDim, N \in 1..MaxDim}

DataIdle == /\ dct = <<>>
            /\ wdata = <<>>
            /\ ldata = <<>>
            /\ loader = "none"

ElektaIdle == /\ ecall = [fn |-> "none"]
              /\ eret = [fn |-> "none"]
              /\ heap = <<>>

TestsIdle == /\ projector = [impl |-> "none"]
             /\ env = [astra |-> FALSE]
             /\ buf = <<>>
             /\ locals = [fn |-> "none"]

InitData == /\ dct \in RawSinograms
            /\ wdata = <<>>
            /\ ldata = <<>>
            /\ loader = "none"
            /\ ElektaIdle
            /\ TestsIdle

WalnutData == /\ wdata' = walnut_data(dct)
              /\ loader' = "walnut_data"
              /\ UNCHANGED <<dct, ldata, elektaVars, testVars>>

LotusRootData == /\ ldata' = lotus_root_data(dct)
                 /\ loader' = "lotus_root_data"
                 /\ UNCHANGED <<dct, wdata, elektaVars, testVars>>

NextData == WalnutData \/ LotusRootData

SpecData == InitData /\ [][NextData]_vars

(***************************************************************************)
(* odl/contrib/tomo/elekta.py                                              *)
(***************************************************************************)

\* Line 19: the defaults of sad and sdd, in mm.
DefaultSad == 780
DefaultSdd == 1000
\* Line 20 and line 22: the default piercing point and detector shape, pixels.
DefaultPiercingPoint == <<390, 0>>
DefaultDetectorShape == <<780, 720>>
\* Line 88: the default shape of the reconstruction space.
DefaultSpaceShape == <<448, 448, 448>>

\* Line 65: pixel_size = 0.368 mm, in micrometres.
pixel_size == 368
\* Line 66: det_shape_mm = [287.04, 264.96] mm, in micrometres.
det_shape_mm == <<287040, 264960>>

\* odl.nonuniform_partition(points): the partition whose samples are the
\* points; InvalidRangeError for fewer than 2 points or non-increasing ones.
nonuniform_partition(points) ==
    IF Len(points) >= 2 /\ \A k \in 1..(Len(points) - 1) : points[k] < points[k + 1]
    THEN [raised |-> "None", points |-> points]
    ELSE [raised |-> "InvalidRangeError", points |-> <<>>]

\* odl.uniform_partition(min_pt, max_pt, shape): the box from min_pt to
\* max_pt cut into shape[k] equal cells on axis k.
uniform_partition(min_pt, max_pt, shape) ==
    [min_pt |-> min_pt, max_pt |-> max_pt, shape |-> shape]

\* partition.extent: per axis, the max boundary minus the min boundary.
Extent(part) == [k \in 1..Len(part.min_pt) |-> part.max_pt[k] - part.min_pt[k]]

\* partition.cell_sides[k] = c, stated without division: extent / shape = c.
CellSideIs(part, k, c) == c * part.shape[k] = Extent(part)[k]

NullPartition == [min_pt |-> <<>>, max_pt |-> <<>>, shape |-> <<>>]

NullGeometry ==
    [kind |-> "none", angles |-> <<>>, detector |-> NullPartition,
     src_radius |-> 0, det_radius |-> 0, axis |-> <<>>]

\* odl.tomo.CircularConeFlatGeometry(apart, dpart, src_radius, det_radius,
\* axis): both radii must be positive.
CircularConeFlatGeometry(apart, dpart, src_radius, det_radius, axis) ==
    IF src_radius > 0 /\ det_radius > 0
    THEN [raised |-> "None",
          geometry |-> [kind |-> "CircularConeFlatGeometry",
                        angles |-> apart.points, detector |-> dpart,
                        src_radius |-> src_radius, det_radius |-> det_radius,
                        axis |-> axis]]
    ELSE [raised |-> "InvalidGeometryError", geometry |-> NullGeometry]

\* A faulty variant of lines 72-73: the piercing point left in pixels.
DetMinPtInPixels(piercing_point) == [k \in 1..2 |-> -piercing_point[k]]

\* Lines 72-73: piercing_point_mm = pixel_size * piercing_point;
\* det_min_pt = -piercing_point_mm
DetMinPt(piercing_point) ==
    LET piercing_point_mm == [k \in 1..2 |-> pixel_size * piercing_point[k]]
    IN  [k \in 1..2 |-> -piercing_point_mm[k]]

\* Line 74: det_max_pt = det_min_pt + det_shape_mm
DetMaxPt(det_min_pt) == [k \in 1..2 |-> det_min_pt[k] + det_shape_mm[k]]

\* What a call of elekta_icon_geometry leaves behind: the exception raised
\* ("None" when it returns), the objects built before that, in order, and
\* the geometry returned.
GeometryResult(raised, built, geometry) ==
    [raised |-> raised, built |-> built, geometry |-> geometry]

\* Lines 19-85.  debug is the interpreter's __debug__: under python -O it is
\* FALSE and the assert statements of lines 56, 58 and 60 are not executed.
elekta_icon_geometry(sad, sdd, piercing_point, angles, detector_shape, debug) ==
    IF debug /\ ~(sad > 0) THEN GeometryResult("AssertionError", <<>>, NullGeometry)
    ELSE IF debug /\ ~(sdd > sad) THEN GeometryResult("AssertionError", <<>>, NullGeometry)
    ELSE IF debug /\ ~(Len(piercing_point) = 2)
    THEN GeometryResult("AssertionError", <<>>, NullGeometry)
    ELSE
    LET angle_partition == nonuniform_partition(angles)
        det_min_pt == DetMinPt(piercing_point)
        det_max_pt == DetMaxPt(det_min_pt)
        detector_partition == uniform_partition(det_min_pt, det_max_pt, detector_shape)
        made == CircularConeFlatGeometry(angle_partition, detector_partition,
                                         sad, sdd - sad, <<0, 0, 1>>)
    IN  IF angle_partition.raised # "None"
        THEN GeometryResult(angle_partition.raised, <<>>, NullGeometry)
        ELSE IF made.raised # "None"
        THEN GeometryResult(made.raised,
                            <<"angle_partition", "detector_partition">>, NullGeometry)
        ELSE GeometryResult("None",
                            <<"angle_partition", "detector_partition", "geometry">>,
                            made.geometry)

\* Keyword arguments: every key is "unset" or holds a value.
NoKwargs == [impl |-> "unset", interp |-> "unset"]
Kwargs == [impl : {"unset", "numpy", "cuda"}, interp : {"unset", "nearest", "linear"}]

NullSpace == [min_pt |-> <<>>, max_pt |-> <<>>, shape |-> <<>>, dtype |-> "none",
              impl |-> "none", interp |-> "none"]

\* odl.uniform_discr(min_pt, max_pt, shape, dtype=..., **kwargs): the
\* keyword arguments given replace the defaults impl='numpy', interp='nearest'.
uniform_discr(min_pt, max_pt, shape, dtype, kwargs) ==
    [min_pt |-> min_pt, max_pt |-> max_pt, shape |-> shape, dtype |-> dtype,
     impl |-> IF kwargs.impl = "unset" THEN "numpy" ELSE kwargs.impl,
     interp |-> IF kwargs.interp = "unset" THEN "nearest" ELSE kwargs.interp]

\* Lines 88-112: kwargs is accepted and not handed on.
elekta_icon_space(shape, kwargs) ==
    uniform_discr(<<-112, -112, 0>>, <<112, 112, 224>>, shape, "float32", NoKwargs)

\* An operator is the sequence of its factors, leftmost first: <<A, B>> is
\* the product A * B.
NullFactor == [name |-> "none", ray_transform |-> "none", padding |-> FALSE,
               filter_type |-> "none", frequency_scaling |-> 0]

\* odl.tomo.fbp_op(ray_transform, padding=..., filter_type=...,
\* frequency_scaling=...); frequency_scaling in tenths.
fbp_op(ray_transform, padding, filter_type, frequency_scaling) ==
    <<[name |-> "fbp", ray_transform |-> ray_transform, padding |-> padding,
       filter_type |-> filter_type, frequency_scaling |-> frequency_scaling]>>

\* odl.tomo.parker_weighting(ray_transform)
parker_weighting_op(ray_transform) ==
    <<[NullFactor EXCEPT !.name = "parker", !.ray_transform = ray_transform]>>

\* Operator.__mul__: left * right is the composition OperatorComp(left, right).
OperatorMul(left, right) == left \o right

\* A factor applied to a value: the value records the factors it has been
\* through, first applied first.
ApplyFactor(f, v) == [v EXCEPT !.through = Append(@, f)]

\* OperatorComp._call: (left * right)(x) = left(right(x)).
RECURSIVE ApplyOperator(_, _)
ApplyOperator(op, v) ==
    IF Len(op) = 0 THEN v
    ELSE ApplyFactor(Head(op), ApplyOperator(Tail(op), v))

\* The projection data y, through no operator yet.
Projection(y) == [input |-> y, through |-> <<>>]

\* A faulty variant of lines 115-124: the weighting multiplied from the left.
elekta_icon_reconstruction_weight_last(ray_transform, parker_weighting) ==
    LET op == fbp_op(ray_transform, FALSE, "Hann", 6)
    IN  IF parker_weighting
        THEN OperatorMul(parker_weighting_op(ray_transform), op)
        ELSE op

\* Lines 115-124.
elekta_icon_reconstruction(ray_transform, parker_weighting) ==
    LET op == fbp_op(ray_transform, FALSE, "Hann", 6)
    IN  IF parker_weighting
        THEN OperatorMul(op, parker_weighting_op(ray_transform))
        ELSE op

(***************************************************************************)
(* elekta_icon_geometry and the arrays of its caller.  The heap is the     *)
(* sequence of the array objects alive, an object its dtype and its data;  *)
(* a reference is an index into the heap.  Angles are in units of          *)
(* 1/3310 rad, in which the default angles are integers.                   *)
(***************************************************************************)
Obj(dtype, data) == [dtype |-> dtype, data |-> data]

\* Line 21: angles=np.linspace(1.2, 5.0, 332), evaluated once, when the
\* function is defined: 332 points from 1.2 = 3972/3310 in steps of
\* 3.8/331 = 38/3310.
DefaultAngleCount == 332
DefaultAngleFirst == 3972
DefaultAngleStep == 38
DefaultAngles == [k \in 1..DefaultAngleCount |-> DefaultAngleFirst + DefaultAngleStep * (k - 1)]

\* The heap once the module is imported: the default angles array.
DefaultAnglesRef == 1
ModuleHeap == << Obj("float", DefaultAngles) >>

\* The caller's own arrays follow it.
CallerAnglesRef == 2
CallerPiercingPointRef == 3
CallerDetectorShapeRef == 4

\* The arguments a caller passes.
SadValues == (-1..MaxSad) \cup {DefaultSad}
SddValues == (-1..(MaxSad + 1)) \cup {DefaultSdd}
PiercingPoints ==
    {DefaultPiercingPoint} \cup {<<x, y>> : x, y \in 0..MaxPierce}
DetectorShapes ==
    {DefaultDetectorShape} \cup {<<a, b>> : a, b \in 1..MaxCells}
AngleLists == {<<a, b>> : a, b \in 0..MaxAngle} \ {<<a, b>> \in (0..MaxAngle) \X (0..MaxAngle) : a >= b}
SpaceShapes == {DefaultSpaceShape} \cup {<<n, n, n>> : n \in 1..MaxCells}
RayTransforms == {"ray_trafo_icon", "ray_trafo_other"}

NullCall ==
    [fn |-> "none", sad |-> 0, sdd |-> 0, piercing_point |-> <<>>,
     angles |-> <<>>, detector_shape |-> <<>>, debug |-> TRUE,
     shape |-> <<>>, kwargs |-> NoKwargs,
     ray_transform |-> "none", parker_weighting |-> FALSE, y |-> 0,
     own_angles |-> FALSE, heap_before |-> <<>>,
     called_before |-> FALSE, prev_args |-> <<>>]

NullReturn ==
    [raised |-> "None", built |-> <<>>, geometry |-> NullGeometry,
     space |-> NullSpace, operator |-> <<>>, applied |-> Projection(0),
     prev_raised |-> "None", prev_geometry |-> NullGeometry]

InitElekta == /\ ecall = NullCall
              /\ eret = NullReturn
              /\ heap = ModuleHeap
              /\ DataIdle
              /\ TestsIdle

\* A caller makes one call at a time and drops the result before the next.
CallGeometry ==
    /\ ecall.fn = "none"
    /\ \E sad \in SadValues, sdd \in SddValues, pp \in PiercingPoints,
       angles \in AngleLists, shape \in DetectorShapes, debug \in BOOLEAN :
        LET r == elekta_icon_geometry(sad, sdd, pp, angles, shape, debug)
        IN  /\ ecall' = [NullCall EXCEPT !.fn = "elekta_icon_geometry",
                            !.sad = sad, !.sdd = sdd, !.piercing_point = pp,
                            !.angles = angles, !.detector_shape = shape,
                            !.debug = debug]
            /\ eret' = [NullReturn EXCEPT !.raised = r.raised, !.built = r.built,
                            !.geometry = r.geometry]
            /\ UNCHANGED <<heap, dataVars, testVars>>

CallSpace ==
    /\ ecall.fn = "none"
    /\ \E shape \in SpaceShapes, kwargs \in Kwargs :
        /\ ecall' = [NullCall EXCEPT !.fn = "elekta_icon_space",
                        !.shape = shape, !.kwargs = kwargs]
        /\ eret' = [NullReturn EXCEPT !.space = elekta_icon_space(shape, kwargs)]
        /\ UNCHANGED <<heap, dataVars, testVars>>

\* elekta_icon_reconstruction is called and the operator it returns is
\* applied to the projection data y.
CallReconstruction ==
    /\ ecall.fn = "none"
    /\ \E rt \in RayTransforms, parker \in BOOLEAN, y \in 0..MaxProj :
        LET op == elekta_icon_reconstruction(rt, parker)
        IN  /\ ecall' = [NullCall EXCEPT !.fn = "elekta_icon_reconstruction",
                            !.ray_transform = rt, !.parker_weighting = parker,
                            !.y = y]
            /\ eret' = [NullReturn EXCEPT !.operator = op,
                            !.applied = ApplyOperator(op, Projection(y))]
            /\ UNCHANGED <<heap, dataVars, testVars>>

\* The caller drops the result of the last call.
DropResult ==
    /\ ecall.fn # "none"
    /\ ecall' = NullCall
    /\ eret' = NullReturn
    /\ UNCHANGED <<heap, dataVars, testVars>>

NextElekta == CallGeometry \/ CallSpace \/ CallReconstruction \/ DropResult

SpecElekta == InitElekta /\ [][NextElekta]_vars

(***************************************************************************)
(* Calls of elekta_icon_geometry with arrays on the heap.                   *)
(***************************************************************************)
\* A faulty variant of lines 59, 61 and 62: the array converted where it is.
NpArrayInPlace(h, ref, dtype) ==
    [heap |-> [h EXCEPT ![ref] = Obj(dtype, h[ref].data)], ref |-> ref]

\* Lines 59, 61 and 62: np.array(x, dtype=dtype) makes a new array with the
\* data of x.
NpArray(h, ref, dtype) ==
    [heap |-> Append(h, Obj(dtype, h[ref].data)), ref |-> Len(h) + 1]

\* Lines 55-85 on the heap h, the array arguments given by reference.  The
\* arrays the call makes are unreachable once it is over; the geometry
\* keeps their values.
elekta_icon_geometry_on_heap(h, sad, sdd, piercing_point, angles, detector_shape, debug) ==
    IF debug /\ (~(sad > 0) \/ ~(sdd > sad))
    THEN [heap |-> h,
          result |-> elekta_icon_geometry(sad, sdd, h[piercing_point].data,
                                          h[angles].data, h[detector_shape].data, debug)]
    ELSE
    LET pp == NpArray(h, piercing_point, "float")
        an == NpArray(pp.heap, angles, "float")
        ds == NpArray(an.heap, detector_shape, "int")
    IN  [heap |-> SubSeq(ds.heap, 1, Len(h)),
         result |-> elekta_icon_geometry(sad, sdd, ds.heap[pp.ref].data,
                                         ds.heap[an.ref].data,
                                         ds.heap[ds.ref].data, debug)]

\* The source distances a caller passes: the defaults, a small valid pair
\* and a pair the validation rejects.
GeometryDistances == {<<DefaultSad, DefaultSdd>>, <<1, 2>>, <<0, 1>>}

InitGeometryCalls ==
    /\ \E angles \in AngleLists, pp \in PiercingPoints, shape \in DetectorShapes :
          heap = ModuleHeap \o << Obj("int", angles), Obj("int", pp), Obj("int", shape) >>
    /\ ecall = NullCall
    /\ eret = NullReturn
    /\ DataIdle
    /\ TestsIdle

\* The caller calls elekta_icon_geometry with its arrays, leaving angles out
\* or not.
CallGeometryOnHeap ==
    /\ ecall.fn = "none"
    /\ \E dist \in GeometryDistances, own_angles \in BOOLEAN, debug \in BOOLEAN :
        LET angles == IF own_angles THEN CallerAnglesRef ELSE DefaultAnglesRef
            r == elekta_icon_geometry_on_heap(heap, dist[1], dist[2],
                     CallerPiercingPointRef, angles, CallerDetectorShapeRef, debug)
        IN  /\ ecall' = [ecall EXCEPT !.fn = "elekta_icon_geometry",
                            !.sad = dist[1], !.sdd = dist[2],
                            !.piercing_point = heap[CallerPiercingPointRef].data,
                            !.angles = heap[angles].data,
                            !.detector_shape = heap[CallerDetectorShapeRef].data,
                            !.debug = debug,
                            !.own_angles = own_angles,
                            !.heap_before = heap]
            /\ eret' = [eret EXCEPT !.raised = r.result.raised,
                            !.built = r.result.built,
                            !.geometry = r.result.geometry]
            /\ heap' = r.heap
    /\ UNCHANGED <<dataVars, testVars>>

\* The call is over; the caller keeps what it passed and what it got.
ReturnToCaller ==
    /\ ecall.fn = "elekta_icon_geometry"
    /\ ecall' = [NullCall EXCEPT !.called_before = TRUE,
                    !.prev_args = <<ecall.sad, ecall.sdd, ecall.piercing_point,
                                    ecall.angles, ecall.detector_shape>>]
    /\ eret' = [NullReturn EXCEPT !.prev_raised = eret.raised,
                    !.prev_geometry = eret.geometry]
    /\ UNCHANGED <<heap, dataVars, testVars>>

NextGeometryCalls == CallGeometryOnHeap \/ ReturnToCaller

SpecGeometryCalls == InitGeometryCalls /\ [][NextGeometryCalls]_vars

(***************************************************************************)
(* odl/test/tomo/operators/ray_trafo_test.py and the RayTransform it       *)
(* tests.  Every element of a volume or projection space is sampled on a   *)
(* grid of 2 x 2 cells, whatever shape its space declares: a volume is     *)
(* vol[row][column], projection data are proj[angle][detector pixel].  The *)
(* shape and corners a space declares are kept for the checks reading them.*)
(***************************************************************************)
Cells == 1..2

Elements(V) == [Cells -> [Cells -> V]]

\* space.zero() and space.one()
ZeroElement == [i \in Cells |-> [j \in Cells |-> 0]]
OneElement == [i \in Cells |-> [j \in Cells |-> 1]]

\* x.inner(y) and x.norm() ** 2
Inner(x, y) ==
    x[1][1] * y[1][1] + x[1][2] * y[1][2] + x[2][1] * y[2][1] + x[2][2] * y[2][2]
Norm2(x) == Inner(x, x)

Abs(a) == IF a < 0 THEN -a ELSE a

\* The forward projection of a backend: the ray sums along the rows of the
\* volume (first angle) and along its columns (second angle).
ForwardProject(vol) ==
    << [d \in Cells |-> vol[d][1] + vol[d][2]],
       [d \in Cells |-> vol[1][d] + vol[2][d]] >>

\* A faulty backprojection: the two angles exchanged.
BackProjectAnglesExchanged(proj) ==
    [i \in Cells |-> [j \in Cells |-> proj[2][i] + proj[1][j]]]

\* The backprojection of a backend, the adjoint of ForwardProject: every
\* ray's value is added to the cells the ray passes.
BackProject(proj) == [i \in Cells |-> [j \in Cells |-> proj[1][i] + proj[2][j]]]

\* Lines 100-102 of the projector fixture and lines 39-40 of the geometry
\* fixture: n = m = n_angles = 100.
FixtureN == 100

\* The geometry classes: their ndim.
GeometryNdim(class) ==
    IF class \in {"Parallel2dGeometry", "FanFlatGeometry"} THEN 2 ELSE 3

Geometry(class, apart) == [class |-> class, ndim |-> GeometryNdim(class), apart |-> apart]

NullGeom == [class |-> "none", ndim |-> 0, apart |-> "none"]

\* isinstance(geometry, cls): the geometry kinds are a closed set of variants.
IsInstance(geometry, class) == geometry.class = class

\* Lines 36-66: the geometry fixture.
GeometryParams == {"par2d", "par3d", "cone2d", "cone3d", "helical"}

GeometryClass(geom) ==
    CASE geom = "par2d" -> "Parallel2dGeometry"
      [] geom = "par3d" -> "Parallel3dAxisGeometry"
      [] geom = "cone2d" -> "FanFlatGeometry"
      [] geom = "cone3d" -> "CircularConeFlatGeometry"
      [] geom = "helical" -> "HelicalConeFlatGeometry"

GeometryFixture(geom) ==
    Geometry(GeometryClass(geom),
             CASE geom \in {"par2d", "par3d"} -> "uniform 0 pi"
               [] geom \in {"cone2d", "cone3d"} -> "uniform 0 2pi"
               [] geom = "helical" -> "uniform 0 16pi")

\* partition.has_isotropic_cells: extent[k] / shape[k] is the same on every
\* axis.
HasIsotropicCells(space) ==
    \A k, l \in 1..Len(space.shape) :
        (space.max_pt[k] - space.min_pt[k]) * space.shape[l]
            = (space.max_pt[l] - space.min_pt[l]) * space.shape[k]

\* space.real_space of a complex space
RealSpace(space) == [space EXCEPT !.dtype = "float32"]

\* RayTransform(space, geometry, impl=None): without impl the best backend
\* installed is taken.  Nothing about the backend's support is checked here.
DefaultImpl(e) ==
    IF e.astra_cuda THEN "astra_cuda"
    ELSE IF e.astra THEN "astra_cpu"
    ELSE "skimage"

RayTransform(space, geometry, impl) ==
    [domain |-> space, geometry |-> geometry, impl |-> impl]

NullProjector == [domain |-> NullSpace, geometry |-> NullGeom, impl |-> "none"]

\* What a backend supports, checked when it is called: skimage only 2d
\* parallel beams, astra_cpu only 2d geometries, and ASTRA no 2d volume with
\* anisotropic cells.
BackendRaises(rt) ==
    IF rt.impl = "skimage" /\ rt.geometry.class # "Parallel2dGeometry"
    THEN "NotImplementedError"
    ELSE IF rt.impl = "astra_cpu" /\ rt.geometry.ndim # 2
    THEN "NotImplementedError"
    ELSE IF /\ rt.impl \in {"astra_cpu", "astra_cuda"}
            /\ rt.geometry.ndim = 2
            /\ ~HasIsotropicCells(rt.domain)
    THEN "NotImplementedError"
    ELSE "None"

\* What a call leaves behind: the exception raised ("None" when it returns),
\* the value returned, and the argument as the call left it.
Returned(value, arg) == [raised |-> "None", value |-> value, arg |-> arg]
Raised(error, arg) == [raised |-> error, value |-> <<>>, arg |-> arg]

\* A faulty complex transform: the imaginary part taken from the real input.
ComplexCallMixed(x) == [re |-> ForwardProject(x.re), im |-> ForwardProject(x.re)]

\* The transform of a complex volume: the real transform of its real part
\* and of its imaginary part, recombined.
ComplexCall(x) == [re |-> ForwardProject(x.re), im |-> ForwardProject(x.im)]

\* ray_trafo(x): the forward projection, out of place.
RayTransformCall(rt, x) ==
    IF BackendRaises(rt) # "None" THEN Raised(BackendRaises(rt), x)
    ELSE IF rt.domain.dtype = "complex64" THEN Returned(ComplexCall(x), x)
    ELSE Returned(ForwardProject(x), x)

\* ray_trafo.adjoint(y): the backprojection, out of place.
RayTransformAdjoint(rt, y) ==
    IF BackendRaises(rt) # "None" THEN Raised(BackendRaises(rt), y)
    ELSE Returned(BackProject(y), y)

\* A faulty in-place call: the result is added to what the buffer holds.
WriteOutAccumulate(out, value) ==
    [a \in Cells |-> [d \in Cells |-> out[a][d] + value[a][d]]]

\* ray_trafo(x, out=out): the result replaces the content of out.
WriteOut(out, value) == value

RayTransformCallOut(rt, x, out) ==
    IF BackendRaises(rt) # "None" THEN Raised(BackendRaises(rt), x)
    ELSE Returned(WriteOut(out, ForwardProject(x)), x)

\* Lines 70-91: the parameters of the projector fixture.
projectors ==
    ({"par2d", "cone2d"} \X {"astra_cpu"} \X {"uniform", "nonuniform", "random"})
    \cup ({"par2d"} \X {"astra_cuda"} \X {"uniform", "half_uniform", "nonuniform", "random"})
    \cup ({"cone2d", "par3d", "cone3d"} \X {"astra_cuda"} \X {"uniform", "nonuniform", "random"})
    \cup {<<"helical", "astra_cuda", "uniform">>}
    \cup ({"par2d"} \X {"skimage"} \X {"uniform", "half_uniform"})

\* Lines 107-125: the angle partition of the fixture, by its sampling.
FixtureAngles(angle) ==
    CASE angle = "uniform" -> "uniform 0 2pi"
      [] angle = "half_uniform" -> "uniform 0 pi"
      [] angle = "random" -> "nonuniform random"
      [] angle = "nonuniform" -> "nonuniform quadratic"

\* Lines 98-182: the projector fixture for the parameter <<geom, impl, angle>>.
ProjectorFixture(param) ==
    LET geom == param[1]
        impl == param[2]
        d == GeometryNdim(GeometryClass(geom))
        reco_space ==
            IF geom = "helical"
            THEN uniform_discr(<<-20, -20, 0>>, <<20, 20, 40>>,
                               [k \in 1..3 |-> FixtureN], "float32", NoKwargs)
            ELSE uniform_discr([k \in 1..d |-> -20], [k \in 1..d |-> 20],
                               [k \in 1..d |-> FixtureN], "float32", NoKwargs)
        apart == IF geom = "helical" THEN "uniform 0 16pi" ELSE FixtureAngles(param[3])
    IN  RayTransform(reco_space, Geometry(GeometryClass(geom), apart), impl)

\* skip_if_no_astra, skip_if_no_astra_cuda, skip_if_no_skimage
Installed(e, impl) ==
    CASE impl = "astra_cpu" -> e.astra
      [] impl = "astra_cuda" -> e.astra_cuda
      [] impl = "skimage" -> e.skimage

\* What is installed: ASTRA with or without CUDA, scikit-image, and whether
\* ASTRA_VERSION is older than 1.8rc1.
Envs ==
    {e \in [astra : BOOLEAN, astra_cuda : BOOLEAN, skimage : BOOLEAN,
            astra_old : BOOLEAN] :
        /\ e.astra_cuda => e.astra
        /\ e.astra_old => e.astra}

\* The environments in which no test is skipped: every backend is installed.
FullEnvs == {e \in Envs : e.astra /\ e.astra_cuda /\ e.skimage}

NullEnv == [astra |-> FALSE, astra_cuda |-> FALSE, skimage |-> FALSE, astra_old |-> FALSE]

\* The local variables of a call or a test.
NullLocals ==
    [fn |-> "none", skipped |-> FALSE, in_place |-> FALSE, out_dirty |-> FALSE,
     vol |-> <<>>, vol_after |-> <<>>, vol_im |-> <<>>, proj |-> <<>>, proj_im |-> <<>>,
     backproj |-> <<>>, true_data_re |-> <<>>, true_data_im |-> <<>>,
     result_AxAx |-> 0, result_xAtAx |-> 0, rtol |-> 0, passed |-> TRUE,
     geom |-> "none", ndim |-> 0, raised |-> "None", raised_adjoint |-> "None",
     norm2 |-> 0, norm2_adjoint |-> 0,
     impl |-> "none", angle |-> "none", k |-> 0, prev |-> 0, cur |-> 0,
     twopi |-> 0, increasing |-> TRUE, built |-> FALSE]

\* A faulty variant of lines 221-225: the two tolerances exchanged.
AdjointRtolExchanged(e, geometry) ==
    IF e.astra_old /\ IsInstance(geometry, "HelicalConeFlatGeometry") THEN 5 ELSE 10

\* Lines 221-225: rtol of test_adjoint, in percent.
AdjointRtol(e, geometry) ==
    IF e.astra_old /\ IsInstance(geometry, "HelicalConeFlatGeometry") THEN 10 ELSE 5

\* actual == pytest.approx(expected, rel=rtol), rtol in percent
ApproxRel(actual, expected, rtol) == 100 * Abs(actual - expected) <= rtol * Abs(expected)

\* A faulty variant of line 278: the same number of cells on every axis.
AnisotropicShapeAllEqual(ndim) == [k \in 1..ndim |-> 10]

\* Line 278: shape = [10] * (ndim - 1) + [5]
AnisotropicShape(ndim) == [k \in 1..ndim |-> IF k < ndim THEN 10 ELSE 5]

Volumes == Elements(0..MaxVal)

(***************************************************************************)
(* The projector fixture in use: calls of the shared operator, and the     *)
(* tests test_projector and test_adjoint.                                  *)
(***************************************************************************)
InitProjector ==
    /\ \E param \in projectors :
          /\ projector = ProjectorFixture(param)
          /\ env \in {e \in FullEnvs : Installed(e, param[2])}
    /\ buf = ZeroElement
    /\ locals = NullLocals
    /\ DataIdle
    /\ ElektaIdle

\* proj = projector(vol)
CallOutOfPlace ==
    /\ locals.fn = "none"
    /\ \E vol \in Volumes :
          LET r == RayTransformCall(projector, vol)
          IN  locals' = [NullLocals EXCEPT !.fn = "call", !.vol = vol,
                            !.vol_after = r.arg,
                            !.raised = r.raised, !.proj = r.value]
    /\ UNCHANGED <<projector, env, buf, dataVars, elektaVars>>

\* projector(vol, out=buf)
CallInPlace ==
    /\ locals.fn = "none"
    /\ \E vol \in Volumes :
          LET r == RayTransformCallOut(projector, vol, buf)
          IN  /\ buf' = IF r.raised = "None" THEN r.value ELSE buf
              /\ locals' = [NullLocals EXCEPT !.fn = "call", !.in_place = TRUE,
                               !.out_dirty = (buf # ZeroElement),
                               !.vol = vol, !.vol_after = r.arg,
                               !.raised = r.raised, !.proj = buf']
    /\ UNCHANGED <<projector, env, dataVars, elektaVars>>

\* backproj = projector.adjoint(buf)
CallAdjoint ==
    /\ locals.fn = "none"
    /\ LET r == RayTransformAdjoint(projector, buf)
       IN  locals' = [NullLocals EXCEPT !.fn = "adjoint", !.proj = buf,
                         !.raised = r.raised, !.backproj = r.value]
    /\ UNCHANGED <<projector, env, buf, dataVars, elektaVars>>

\* Lines 195-214: test_projector, up to the comparison of the maximum with
\* the extent of the domain, which modifies nothing.
TestProjector ==
    /\ locals.fn = "none"
    /\ \E in_place \in BOOLEAN :
          LET vol == OneElement
              r == IF in_place
                   THEN RayTransformCallOut(projector, vol, ZeroElement)
                   ELSE RayTransformCall(projector, vol)
          IN  locals' = [NullLocals EXCEPT !.fn = "test_projector",
                            !.in_place = in_place, !.vol = vol,
                            !.vol_after = r.arg,
                            !.raised = r.raised, !.proj = r.value]
    /\ UNCHANGED <<projector, env, buf, dataVars, elektaVars>>

\* Lines 217-237: test_adjoint, for any volume in place of the phantom.
TestAdjoint ==
    /\ locals.fn = "none"
    /\ \E vol \in Volumes :
          LET rtol == AdjointRtol(env, projector.geometry)
              proj == RayTransformCall(projector, vol)
              backproj == RayTransformAdjoint(projector, proj.value)
              result_AxAx == Inner(proj.value, proj.value)
              result_xAtAx == Inner(backproj.value, vol)
          IN  locals' =
                IF proj.raised # "None"
                THEN [NullLocals EXCEPT !.fn = "test_adjoint", !.vol = vol,
                         !.rtol = rtol, !.raised = proj.raised, !.passed = FALSE]
                ELSE [NullLocals EXCEPT !.fn = "test_adjoint", !.vol = vol,
                         !.rtol = rtol, !.proj = proj.value,
                         !.backproj = backproj.value,
                         !.result_AxAx = result_AxAx,
                         !.result_xAtAx = result_xAtAx,
                         !.passed = ApproxRel(result_AxAx, result_xAtAx, rtol)]
    /\ UNCHANGED <<projector, env, buf, dataVars, elektaVars>>

\* The call or test returns and its local variables are gone.
DropLocals ==
    /\ locals.fn # "none"
    /\ locals' = NullLocals
    /\ UNCHANGED <<projector, env, buf, dataVars, elektaVars>>

NextProjector ==
    \/ CallOutOfPlace
    \/ CallInPlace
    \/ CallAdjoint
    \/ TestProjector
    \/ DropLocals

SpecProjector == InitProjector /\ [][NextProjector]_vars

NextAdjoint == TestAdjoint \/ DropLocals

SpecAdjoint == InitProjector /\ [][NextAdjoint]_vars

(***************************************************************************)
(* The angle samples of the projector fixture (lines 107-125).  Angles are *)
(* integers in a unit that makes every quantity of the lines exact: the    *)
(* full turn 2 * pi is twopi units.  The fixture is followed point by      *)
(* point, np.random.rand drawing the noise of one point at a time from the *)
(* grid 0, 1/MaxNoise, ..., (MaxNoise - 1)/MaxNoise of [0, 1).             *)
(***************************************************************************)
\* 2 * pi for the 'random' sampling.
RandomTwoPi == 5 * FixtureN * FixtureN * (FixtureN - 1) * MaxNoise

\* 2 * pi for the 'nonuniform' sampling.
QuadTwoPi == FixtureN * (FixtureN - 1) * (FixtureN - 1)

\* Lines 113 and 120: min_pt = 2 * (2.0 * np.pi) / n_angles
AngleMinPt(twopi, n_angles) == (2 * twopi) \div n_angles

\* Lines 114 and 121: max_pt = (2.0 * np.pi) - 2 * (2.0 * np.pi) / n_angles
AngleMaxPt(twopi, n_angles) == twopi - (2 * twopi) \div n_angles

\* np.linspace(start, stop, num)[k], k from 0: start + k * step
LinspaceStep(start, stop, num) == (stop - start) \div (num - 1)
Linspace(start, stop, num, k) == start + k * LinspaceStep(start, stop, num)

\* A faulty variant of line 116: the noise scaled by 5 / n_angles.
NoiseScaleTimesFive(min_pt, max_pt, n_angles) == ((max_pt - min_pt) * 5) \div n_angles

\* Line 116: the factor (max_pt - min_pt) / (5 * n_angles) of the noise.
NoiseScale(min_pt, max_pt, n_angles) == (max_pt - min_pt) \div (5 * n_angles)

\* Lines 113-116: point k of the 'random' sampling when np.random.rand
\* gives r / MaxNoise for it.
RandomPoint(k, r) ==
    LET min_pt == AngleMinPt(RandomTwoPi, FixtureN)
        max_pt == AngleMaxPt(RandomTwoPi, FixtureN)
    IN  Linspace(min_pt, max_pt, FixtureN, k)
            + (r * NoiseScale(min_pt, max_pt, FixtureN)) \div MaxNoise

\* x ** 0.5 as the coefficient c of sqrt(2): x = (c * sqrt(2)) ** 2.
Sqrt2Coef(x) == CHOOSE c \in 0..(FixtureN * (FixtureN - 1)) : 2 * c * c = x

QuadSqrtMin == Sqrt2Coef(AngleMinPt(QuadTwoPi, FixtureN))
QuadSqrtMax == Sqrt2Coef(AngleMaxPt(QuadTwoPi, FixtureN))

\* Lines 120-122: point k of the 'nonuniform' sampling,
\* np.linspace(min_pt ** 0.5, max_pt ** 0.5, n_angles) ** 2
QuadraticPoint(k) ==
    LET c == Linspace(QuadSqrtMin, QuadSqrtMax, FixtureN, k)
    IN  2 * c * c

\* odl.nonuniform_partition(points) for points followed one by one: num
\* points, increasing telling whether each was above the one before it.
PointsAccepted(num, increasing) ==
    IF num >= 2 /\ increasing THEN "None" ELSE "InvalidRangeError"

InitFixture ==
    /\ projector = NullProjector
    /\ env \in FullEnvs
    /\ buf = ZeroElement
    /\ locals = NullLocals
    /\ DataIdle
    /\ ElektaIdle

\* Lines 98-105: pytest requests the fixture for the next parameter.
RequestProjector ==
    /\ locals.fn = "none"
    /\ \E param \in projectors :
          /\ Installed(env, param[2])
          /\ locals' = [NullLocals EXCEPT !.fn = "projector", !.geom = param[1],
                           !.impl = param[2], !.angle = param[3],
                           !.twopi = CASE param[3] = "random" -> RandomTwoPi
                                       [] param[3] = "nonuniform" -> QuadTwoPi
                                       [] OTHER -> 0]
    /\ projector' = NullProjector
    /\ UNCHANGED <<env, buf, dataVars, elektaVars>>

\* Lines 111-123: the next of the n_angles points.
SamplePoint ==
    /\ locals.fn = "projector"
    /\ locals.angle \in {"random", "nonuniform"}
    /\ locals.k < FixtureN
    /\ \E r \in 0..(MaxNoise - 1) :
          /\ locals.angle = "nonuniform" => r = 0
          /\ LET point == IF locals.angle = "random"
                          THEN RandomPoint(locals.k, r)
                          ELSE QuadraticPoint(locals.k)
             IN  locals' = [locals EXCEPT !.k = locals.k + 1,
                               !.prev = locals.cur, !.cur = point,
                               !.increasing = /\ locals.increasing
                                              /\ locals.k > 0 => locals.cur < point]
    /\ UNCHANGED <<projector, env, buf, dataVars, elektaVars>>

\* Lines 107-110, 117, 123 and 127-182: the angle partition is built and the
\* RayTransform returned.
BuildProjector ==
    /\ locals.fn = "projector"
    /\ ~locals.built
    /\ locals.angle \in {"random", "nonuniform"} => locals.k = FixtureN
    /\ LET raised == IF locals.angle \in {"random", "nonuniform"}
                     THEN PointsAccepted(locals.k, locals.increasing)
                     ELSE "None"
       IN  /\ locals' = [locals EXCEPT !.built = TRUE, !.raised = raised]
           /\ projector' = IF raised = "None"
                           THEN ProjectorFixture(<<locals.geom, locals.impl, locals.angle>>)
                           ELSE NullProjector
    /\ UNCHANGED <<env, buf, dataVars, elektaVars>>

\* The fixture function has returned or raised.
FinishFixture ==
    /\ locals.fn = "projector"
    /\ locals.built
    /\ locals' = NullLocals
    /\ UNCHANGED <<projector, env, buf, dataVars, elektaVars>>

NextFixture == RequestProjector \/ SamplePoint \/ BuildProjector \/ FinishFixture

SpecFixture == InitFixture /\ [][NextFixture]_vars

(***************************************************************************)
(* The tests that build their own operators: test_complex and              *)
(* test_anisotropic_voxels.                                                *)
(***************************************************************************)
InitTests ==
    /\ projector = NullProjector
    /\ env \in Envs
    /\ buf = ZeroElement
    /\ locals = NullLocals
    /\ DataIdle
    /\ ElektaIdle

\* Lines 257-272: test_complex for the backend impl (skipped when impl is
\* not installed), for any complex volume in place of the phantoms.
TestComplex ==
    /\ locals.fn = "none"
    /\ \E impl \in {"astra_cpu", "astra_cuda", "skimage"} :
          /\ Installed(env, impl)
          /\ \E re \in Volumes, im \in Volumes :
                LET space_c == uniform_discr(<<-1, -1>>, <<1, 1>>, <<10, 10>>,
                                             "complex64", NoKwargs)
                    space_r == RealSpace(space_c)
                    geom == Geometry("Parallel2dGeometry", "uniform 0 pi")
                    ray_trafo_c == RayTransform(space_c, geom, impl)
                    ray_trafo_r == RayTransform(space_r, geom, impl)
                    vol == [re |-> re, im |-> im]
                    data == RayTransformCall(ray_trafo_c, vol)
                    true_data_re == RayTransformCall(ray_trafo_r, vol.re)
                    true_data_im == RayTransformCall(ray_trafo_r, vol.im)
                IN  locals' =
                      IF data.raised # "None"
                      THEN [NullLocals EXCEPT !.fn = "test_complex",
                               !.vol = re, !.vol_im = im,
                               !.raised = data.raised, !.passed = FALSE]
                      ELSE [NullLocals EXCEPT !.fn = "test_complex",
                               !.vol = re, !.vol_im = im,
                               !.proj = data.value.re, !.proj_im = data.value.im,
                               !.true_data_re = true_data_re.value,
                               !.true_data_im = true_data_im.value,
                               !.passed = /\ data.value.re = true_data_re.value
                                          /\ data.value.im = true_data_im.value]
    /\ UNCHANGED <<projector, env, buf, dataVars, elektaVars>>

\* Lines 275-305: test_anisotropic_voxels for the geometry fixture geom.
TestAnisotropicVoxels ==
    /\ locals.fn = "none"
    /\ \E g \in GeometryParams :
          LET geometry == GeometryFixture(g)
              ndim == geometry.ndim
              shape == AnisotropicShape(ndim)
              space == uniform_discr([k \in 1..ndim |-> -1], [k \in 1..ndim |-> 1],
                                     shape, "float32", NoKwargs)
              skip == \/ ndim = 2 /\ ~env.astra
                      \/ ndim = 3 /\ ~env.astra_cuda
              ray_trafo == RayTransform(space, geometry, DefaultImpl(env))
              data == RayTransformCall(ray_trafo, OneElement)
              backproj == RayTransformAdjoint(ray_trafo, OneElement)
          IN  locals' =
                IF skip
                THEN [NullLocals EXCEPT !.fn = "test_anisotropic_voxels",
                         !.geom = g, !.ndim = ndim, !.skipped = TRUE]
                ELSE [NullLocals EXCEPT !.fn = "test_anisotropic_voxels",
                         !.geom = g, !.ndim = ndim,
                         !.raised = data.raised,
                         !.raised_adjoint = backproj.raised,
                         !.proj = data.value, !.backproj = backproj.value,
                         !.norm2 = IF data.raised = "None"
                                   THEN Norm2(data.value) ELSE 0,
                         !.norm2_adjoint = IF backproj.raised = "None"
                                           THEN Norm2(backproj.value) ELSE 0,
                         !.passed =
                            IF ndim = 2
                            THEN /\ data.raised = "NotImplementedError"
                                 /\ backproj.raised = "NotImplementedError"
                            ELSE /\ ndim = 3
                                 /\ data.raised = "None"
                                 /\ backproj.raised = "None"
                                 /\ Norm2(data.value) > 0
                                 /\ Norm2(backproj.value) > 0]
    /\ UNCHANGED <<projector, env, buf, dataVars, elektaVars>>

NextTests == TestComplex \/ TestAnisotropicVoxels \/ DropLocals

SpecTests == InitTests /\ [][NextTests]_vars

(***************************************************************************)
(* Properties of the dataset loaders.                                      *)
(***************************************************************************)

\* The matrix of the positions of s: entry (r, c) holds <<r, c>>.
Positions(s) == [r \in 1..Len(s) |-> [c \in 1..Len(s[1]) |-> <<r, c>>]]

\* Every position of s occurs exactly once in the matrix p of positions.
EachOnce(s, p) ==
    \A r \in 1..Len(s), c \in 1..Len(s[1]) :
        Cardinality({ij \in (1..Len(p)) \X (1..Len(p[1])) :
                        p[ij[1]][ij[2]] = <<r, c>>}) = 1

\* C9: for a raw matrix s of shape (M, N) both loaders return shape (N, M);
\* walnut_data's entry [i][j] is computed from raw entry s[M-1-j][i] and the
\* maximum of raw column i only; lotus_root_data's entry [i][j] is
\* s[j][N-1-i]; every raw entry is used at exactly one position.
\* (Indices here start at 1: numpy's M-1-j is M+1-j.)
C9_AxisConvention ==
    LET M == Len(dct)
        N == Len(dct[1])
    IN  /\ loader = "walnut_data" =>
            /\ Shape(wdata) = <<N, M>>
            /\ \A i \in 1..N, j \in 1..M :
                  wdata[i][j] = NegLog(Quot(dct[M + 1 - j][i],
                                           SetMax({dct[k][i] : k \in 1..M})))
            /\ EachOnce(dct, WalnutAxes(Positions(dct)))
        /\ loader = "lotus_root_data" =>
            /\ Shape(ldata) = <<N, M>>
            /\ \A i \in 1..N, j \in 1..M : ldata[i][j] = dct[j][N + 1 - i]
            /\ EachOnce(dct, LotusAxes(Positions(dct)))

\* C9 witness: lotus_root_data has run on a 2 x 2 matrix on which reversing
\* the first axis and reversing the second axis give different results.
C9_Witness ==
    /\ loader = "lotus_root_data"
    /\ Shape(dct) = <<2, 2>>
    /\ ldata # swapaxes(dct)
    /\ ldata # RevAxis1(swapaxes(dct))

\* C10: walnut_data divides each row of the axis-swapped data by that row's
\* own maximum before the negative logarithm; so every returned value is
\* >= 0, every row holds a 0, and within a row a larger raw value gives a
\* smaller returned value.
C10_GainNormalization ==
    loader = "walnut_data" =>
        LET a == WalnutAxes(dct)
        IN  \A i \in 1..Len(a) :
                /\ \A j \in 1..Len(a[i]) :
                      /\ wdata[i][j] = NegLog(Quot(a[i][j],
                                 SetMax({a[i][k] : k \in 1..Len(a[i])})))
                      /\ LnNonNeg(wdata[i][j])
                /\ \E j \in 1..Len(a[i]) : LnIsZero(wdata[i][j])
                /\ \A j, k \in 1..Len(a[i]) :
                      a[i][j] > a[i][k] => LnLess(wdata[i][j], wdata[i][k])

\* C10 witness: walnut_data has run on data whose two rows have different
\* maxima, and one row holds two different values.
C10_Witness ==
    /\ loader = "walnut_data"
    /\ Len(wdata) = 2
    /\ MaxAxis1(WalnutAxes(dct))[1] # MaxAxis1(WalnutAxes(dct))[2]
    /\ \E i \in 1..2 : \E j, k \in 1..Len(wdata[i]) :
          LnLess(wdata[i][j], wdata[i][k])

(***************************************************************************)
(* Properties of the Elekta Icon presets.                                  *)
(***************************************************************************)

\* C5: elekta_icon_geometry fails with InvalidGeometryError, before any
\* partition or geometry is built and returning nothing, when sad <= 0 or
\* sdd <= sad; otherwise it returns a cone beam geometry with
\* src_radius = sad and det_radius = sdd - sad, both strictly positive.
C5_EagerValidation ==
    ecall.fn = "elekta_icon_geometry" =>
        IF ecall.sad <= 0 \/ ecall.sdd <= ecall.sad
        THEN /\ eret.raised = "InvalidGeometryError"
             /\ eret.built = <<>>
             /\ eret.geometry = NullGeometry
        ELSE /\ eret.raised = "None"
             /\ eret.geometry.kind = "CircularConeFlatGeometry"
             /\ eret.geometry.src_radius = ecall.sad
             /\ eret.geometry.det_radius = ecall.sdd - ecall.sad
             /\ eret.geometry.src_radius > 0
             /\ eret.geometry.det_radius > 0

\* C6: with parker_weighting the operator elekta_icon_reconstruction returns
\* computes fbp(parker(y)): the weighting first, the filtered backprojection
\* after it; without, it is the filtered backprojection alone.  The filtered
\* backprojection has filter 'Hann', frequency_scaling 0.6 and no padding.
C6_WeightingBeforeFiltering ==
    ecall.fn = "elekta_icon_reconstruction" =>
        LET fbp == [name |-> "fbp", ray_transform |-> ecall.ray_transform,
                    padding |-> FALSE, filter_type |-> "Hann",
                    frequency_scaling |-> 6]
            parker == [name |-> "parker", ray_transform |-> ecall.ray_transform,
                       padding |-> FALSE, filter_type |-> "none",
                       frequency_scaling |-> 0]
        IN  /\ eret.raised = "None"
            /\ eret.applied.input = ecall.y
            /\ eret.applied.through =
                  IF ecall.parker_weighting THEN <<parker, fbp>> ELSE <<fbp>>

\* C6 witness: an operator built with parker_weighting=True has been applied.
C6_Witness ==
    /\ ecall.fn = "elekta_icon_reconstruction"
    /\ ecall.parker_weighting
    /\ Len(eret.applied.through) = 2

\* C7: elekta_icon_space returns uniform_discr(min_pt=[-112,-112,0],
\* max_pt=[112,112,224], shape=shape, dtype='float32') called with the
\* keyword arguments it was given.
C7_KwargsForwarded ==
    ecall.fn = "elekta_icon_space" =>
        eret.space = uniform_discr(<<-112, -112, 0>>, <<112, 112, 224>>,
                                   ecall.shape, "float32", ecall.kwargs)

\* C8: the detector partition of the geometry returned has its minimum
\* corner at -0.368 * piercing_point and the extent (287.04, 264.96) mm,
\* whatever piercing_point and detector_shape are; its cell size on an axis
\* is 0.368 mm exactly when detector_shape is 780 (720) there; and the
\* piercing point, at 0.368 mm per pixel, lies at detector coordinate 0.
C8_DetectorPartition ==
    (ecall.fn = "elekta_icon_geometry" /\ eret.raised = "None") =>
        LET part == eret.geometry.detector
            pp == ecall.piercing_point
        IN  /\ part.min_pt = <<-(368 * pp[1]), -(368 * pp[2])>>
            /\ Extent(part) = <<287040, 264960>>
            /\ part.shape = ecall.detector_shape
            /\ \A k \in 1..2 :
                  /\ CellSideIs(part, k, 368) <=>
                        ecall.detector_shape[k] = DefaultDetectorShape[k]
                  /\ part.min_pt[k] + 368 * pp[k] = 0

\* C8 witness: a geometry was returned for a piercing point and a detector
\* shape that are not the defaults.
C8_Witness ==
    /\ ecall.fn = "elekta_icon_geometry"
    /\ eret.raised = "None"
    /\ ecall.piercing_point = <<1, 1>>
    /\ ecall.detector_shape = <<2, 1>>
    /\ eret.geometry.detector.shape = <<2, 1>>

(***************************************************************************)
(* Properties of the RayTransform and its tests.                           *)
(***************************************************************************)

C11_AngleSamplesValid ==
    (locals.fn = "projector" /\ locals.angle \in {"random", "nonuniform"}) =>
        /\ locals.k >= 1 => (0 < locals.cur /\ locals.cur < locals.twopi)
        /\ locals.k >= 2 => locals.prev < locals.cur
        /\ locals.increasing
        /\ locals.raised = "None"
        /\ locals.built => projector # NullProjector
        /\ locals.angle = "random" =>
              LET min_pt == AngleMinPt(RandomTwoPi, FixtureN)
                  max_pt == AngleMaxPt(RandomTwoPi, FixtureN)
              IN  NoiseScale(min_pt, max_pt, FixtureN)
                      < LinspaceStep(min_pt, max_pt, FixtureN)

\* C11 witness: the 'random' sampling has given all n_angles points, the
\* last one with less noise than the one before it, and the partition was
\* built.
C11_Witness ==
    /\ locals.fn = "projector"
    /\ locals.angle = "random"
    /\ locals.k = FixtureN
    /\ locals.built
    /\ locals.raised = "None"
    /\ locals.cur - locals.prev
          < LinspaceStep(AngleMinPt(RandomTwoPi, FixtureN),
                         AngleMaxPt(RandomTwoPi, FixtureN), FixtureN)

(***************************************************************************)
(* Properties of elekta_icon_geometry on its caller's arrays.              *)
(***************************************************************************)

\* C12: after any sequence of calls of elekta_icon_geometry the default
\* angles array and the caller's angles, piercing_point and detector_shape
\* arrays are as they were before the call, and two calls with equal
\* arguments that both return give geometries with equal angle partition,
\* detector partition, src_radius, det_radius and axis.
C12_NoEffectDeterministic ==
    /\ heap[DefaultAnglesRef] = Obj("float", DefaultAngles)
    /\ ecall.fn = "elekta_icon_geometry" =>
          /\ heap = ecall.heap_before
          /\ (/\ ecall.called_before
              /\ ecall.prev_args = <<ecall.sad, ecall.sdd, ecall.piercing_point,
                                     ecall.angles, ecall.detector_shape>>
              /\ eret.raised = "None"
              /\ eret.prev_raised = "None") =>
                 /\ eret.geometry.angles = eret.prev_geometry.angles
                 /\ eret.geometry.detector = eret.prev_geometry.detector
                 /\ eret.geometry.src_radius = eret.prev_geometry.src_radius
                 /\ eret.geometry.det_radius = eret.prev_geometry.det_radius
                 /\ eret.geometry.axis = eret.prev_geometry.axis

\* C12 witness: a second call with the caller's own angles array and the
\* arguments of the call before it has returned a geometry.
C12_Witness ==
    /\ ecall.fn = "elekta_icon_geometry"
    /\ ecall.heap_before = heap
    /\ ecall.called_before
    /\ ecall.own_angles
    /\ ecall.prev_args = <<ecall.sad, ecall.sdd, ecall.piercing_point,
                           ecall.angles, ecall.detector_shape>>
    /\ eret.raised = "None"
    /\ eret.prev_raised = "None"
    /\ eret.geometry.angles = heap[CallerAnglesRef].data
    /\ heap[CallerAnglesRef].dtype = "int"

====
